---- MODULE Spec2Model ----
(***************************************************************************)
(* Model of audio_emotion_analyzer.py: the line protocol loop (main), the  *)
(* model lifecycle (initialize / load_model / create_dummy_model), feature *)
(* extraction, prediction and result assembly.                             *)
(*                                                                         *)
(* Python and JSON values are tagged records [type, val]; a Python call is *)
(* an operator returning an outcome record whose field exc is NoExc when   *)
(* the call returned and the exception otherwise, and whose field self is  *)
(* the analyzer object as the call left it (also when it raised).          *)
(***************************************************************************)
EXTENDS Integers, Sequences, FiniteSets, TLC

VARIABLES pc, stdin, stdout, buffer, stderr, analyzer, installed,
          raw, feature_vector

vars == <<pc, stdin, stdout, buffer, stderr, analyzer, installed, raw, feature_vector>>

(***************************************************************************)
(* Bounds of the model.                                                    *)
(***************************************************************************)
\* number of input lines the orchestrator sends before closing the stream
MaxLines == 2
\* the probability 1.0; a probability p is the integer p * Scale
Scale == 12
\* number of distinct random initialisations of an untrained model
MaxPeak == 2
\* longest concatenated feature sequence given to the padding step
MaxRaw == 42

(***************************************************************************)
(* JSON / Python values.                                                   *)
(***************************************************************************)
JString(s) == [type |-> "string", val |-> s]
JNumber(n) == [type |-> "number", val |-> n]
JArray(a)  == [type |-> "array",  val |-> a]
JObject(f) == [type |-> "object", val |-> f]
None       == [type |-> "null",   val |-> "None"]

NoExc == <<>>
\* an exception: its class and str(e)
Exc(cls, msg) == <<cls, msg>>

\* dict.get(key, default)
Get(d, k, default) == IF k \in DOMAIN d THEN d[k] ELSE default

\* (mutation) the f-string shows the kind of the value, not the value
Str_Type(v) == v.type

\* str(v) inside an f-string
Str(v) == IF v.type = "string" THEN v.val
          ELSE IF v.type = "null" THEN "None"
          ELSE v.type

Range(s) == {s[i] : i \in 1..Len(s)}

(***************************************************************************)
(* The environment: model artifacts on disk.                               *)
(***************************************************************************)
DefaultModelPath == "./models/audio-emotion"
DefaultModelType == "fast"
DefaultEmotionLabels ==
    <<"neutral", "calm", "happy", "sad", "angry", "fearful", "disgust", "surprised">>

\* an output vector of K probabilities, all equal
Uniform(K) == [i \in 1..K |-> Scale \div K]
\* an output vector of K probabilities with its maximum at index p
Peaked(K, p) == [i \in 1..K |-> IF i = p THEN Scale - (K - 1) ELSE 1]

\* Path(model_path) / f"{model_type}_model.h5"
ModelFile(path, mtype) == path \o "/" \o Str(mtype) \o "_model.h5"

\* A deserialized model: number of inputs and outputs, and its forward pass
\* on the zero vector and on a non-zero vector.
KerasModel(variant, layers, inputs, outputs, atZero, atOther) ==
    [variant |-> variant, layers |-> layers, input_dim |-> inputs,
     outputs |-> outputs, at_zero |-> atZero, at_other |-> atOther]

\* What is stored at a model file: nothing, bytes that do not deserialize,
\* or a trained model.
Disk(file) ==
    CASE file = "./models/audio-emotion/fast_model.h5" ->
            [exists |-> TRUE, loads |-> TRUE,
             model |-> KerasModel("Loaded", <<64>>, 40, 3, Peaked(3, 1), Peaked(3, 3))]
      [] file = "./models/audio-emotion/accurate_model.h5" ->
            [exists |-> TRUE, loads |-> FALSE]
      [] file = "/models/fast_model.h5" ->
            [exists |-> TRUE, loads |-> TRUE,
             model |-> KerasModel("Loaded", <<64>>, 40, 2, Uniform(2), Peaked(2, 2))]
      [] file = "/models/accurate_model.h5" ->
            [exists |-> TRUE, loads |-> TRUE,
             model |-> KerasModel("Loaded", <<64>>, 13, 2, Uniform(2), Peaked(2, 1))]
      [] OTHER -> [exists |-> FALSE]

(***************************************************************************)
(* AudioEmotionAnalyzer                                                    *)
(***************************************************************************)
\* (mutation) a constructor that starts with the default label set
NewAnalyzer_DefaultLabels ==
    [model |-> None,
     emotion_labels |-> JArray(DefaultEmotionLabels),
     sample_rate |-> 48000,
     model_path |-> None,
     model_type |-> JString("fast")]

\* __init__
NewAnalyzer ==
    [model |-> None,
     emotion_labels |-> JArray(<<>>),
     sample_rate |-> 48000,
     model_path |-> None,
     model_type |-> JString("fast")]

\* Outcome of a method that returns nothing.
Done(self, err) == [exc |-> NoExc, self |-> self, err |-> err]
\* (mutation) an exception leaves a freshly constructed analyzer behind
Raised_Reset(self, e, err) == [exc |-> e, self |-> NewAnalyzer, err |-> err]

\* (mutation) an exception discards the classifier
Raised_DropModel(self, e, err) ==
    [exc |-> e, self |-> [self EXCEPT !.model = None], err |-> err]

\* Outcome of a method that raised e.
Raised(self, e, err) == [exc |-> e, self |-> self, err |-> err]

\* Randomness of building an untrained model: the random initial weights
\* (peak: which output a non-zero input favours, 0 for none) and whether the
\* installed Keras accepts a Dense layer of 0 units.
Rnd == [peak : 0..MaxPeak, dense0 : BOOLEAN]

Softmax(K, peak) == IF peak = 0 \/ peak > K THEN Uniform(K) ELSE Peaked(K, peak)

\* create_dummy_model
create_dummy_model(self, rnd) ==
    IF self.emotion_labels.type # "array"
    THEN Raised(self, Exc("TypeError", "object has no len()"), <<>>)
    ELSE LET L == Len(self.emotion_labels.val)
             layers == IF self.model_type = JString("fast")
                       THEN <<64, 32, L>> ELSE <<128, 64, 32, L>>
         IN IF L = 0 /\ ~rnd.dense0
            THEN Raised(self, Exc("ValueError", "invalid value for units"), <<>>)
            ELSE Done([self EXCEPT !.model =
                          KerasModel("Fallback", layers, 40, L,
                                     Uniform(L), Softmax(L, rnd.peak))],
                      <<"Created dummy model">>)

\* load_model
load_model(self, rnd) ==
    IF self.model_path.type # "string"
    THEN Raised(self, Exc("TypeError", "expected str, bytes or os.PathLike object"), <<>>)
    ELSE LET model_file == ModelFile(self.model_path.val, self.model_type)
             art == Disk(model_file)
         IN IF art.exists
            THEN IF art.loads
                 THEN Done([self EXCEPT !.model = art.model], <<"Loaded model">>)
                 ELSE LET d == create_dummy_model(self, rnd)
                      IN [d EXCEPT !.err = <<"Failed to load model">> \o d.err]
            ELSE LET d == create_dummy_model(self, rnd)
                 IN [d EXCEPT !.err = <<"Model file not found">> \o d.err]

\* initialize
initialize(self, config, rnd) ==
    IF config.type # "object"
    THEN Raised(self, Exc("AttributeError", "object has no attribute 'get'"), <<>>)
    ELSE load_model(
           [self EXCEPT
              !.model_path = Get(config.val, "modelPath", JString(DefaultModelPath)),
              !.model_type = Get(config.val, "modelType", JString(DefaultModelType)),
              !.emotion_labels = Get(config.val, "emotionLabels",
                                     JArray(DefaultEmotionLabels))],
           rnd)

(***************************************************************************)
(* The environment: audio files, as librosa decodes and summarises them.   *)
(* Energies are integers in units of 10^-7.                                *)
(***************************************************************************)
\* (mutation) energy >= 0.01 instead of energy > 0.01
VoiceThreshold_Inclusive == 100000 - 1

\* the threshold 0.01 of analyze_audio, in units of 10^-7
VoiceThreshold == 100000

Zeros(n) == [i \in 1..n |-> 0]

\* librosa.load + librosa.feature.* on an audio path: the summary statistics,
\* or a failure (missing file, undecodable bytes, a path that is no string).
Librosa(audio_path) ==
    IF audio_path.type # "string" THEN [ok |-> FALSE]
    ELSE CASE audio_path.val = "clip.wav" ->
                [ok |-> TRUE,
                 mfcc_mean |-> [i \in 1..13 |-> 20 - 3 * i],
                 mfcc_std |-> [i \in 1..13 |-> i],
                 spectral_centroid |-> 2400,
                 zero_crossing_rate |-> 7,
                 energy |-> 500000]
           [] audio_path.val = "quiet.wav" ->
                [ok |-> TRUE,
                 mfcc_mean |-> [i \in 1..13 |-> 5 - i],
                 mfcc_std |-> [i \in 1..13 |-> 1],
                 spectral_centroid |-> 900,
                 zero_crossing_rate |-> 2,
                 energy |-> 100000]
           [] audio_path.val = "voiced.wav" ->
                [ok |-> TRUE,
                 mfcc_mean |-> [i \in 1..13 |-> 5 - i],
                 mfcc_std |-> [i \in 1..13 |-> 1],
                 spectral_centroid |-> 900,
                 zero_crossing_rate |-> 2,
                 energy |-> 100001]
           [] OTHER -> [ok |-> FALSE]

\* (mutation) a longer sequence keeps its last 40 values
PadOrTruncate_Tail(fs) ==
    IF Len(fs) < 40
    THEN fs \o Zeros(40 - Len(fs))
    ELSE SubSeq(fs, Len(fs) - 39, Len(fs))

\* Pad or truncate to expected size (40 features)
PadOrTruncate(fs) ==
    IF Len(fs) < 40
    THEN fs \o Zeros(40 - Len(fs))
    ELSE SubSeq(fs, 1, 40)

\* extract_features: never raises
extract_features(self, audio_path) ==
    LET a == Librosa(audio_path)
    IN IF a.ok
       THEN [ret |-> [features |-> PadOrTruncate(
                          a.mfcc_mean \o a.mfcc_std \o
                          <<a.spectral_centroid, a.zero_crossing_rate, a.energy>>),
                      mfcc |-> a.mfcc_mean,
                      spectralCentroid |-> a.spectral_centroid,
                      zeroCrossingRate |-> a.zero_crossing_rate,
                      energy |-> a.energy],
             err |-> <<>>]
       ELSE [ret |-> [features |-> Zeros(40),
                      mfcc |-> Zeros(13),
                      spectralCentroid |-> 0,
                      zeroCrossingRate |-> 0,
                      energy |-> 0],
             err |-> <<"Feature extraction error">>]

\* model.predict(features_array)[0]
Forward(model, x) ==
    IF \A i \in 1..Len(x) : x[i] = 0 THEN model.at_zero ELSE model.at_other

\* (mutation) the last index of the maximum
argmax_Last(p) ==
    CHOOSE i \in 1..Len(p) :
        /\ \A j \in 1..Len(p) : p[j] <= p[i]
        /\ \A j \in (i + 1)..Len(p) : p[j] < p[i]

\* np.argmax: the first index of the maximum (indices count from 1 here)
argmax(p) ==
    CHOOSE i \in 1..Len(p) :
        /\ \A j \in 1..Len(p) : p[j] <= p[i]
        /\ \A j \in 1..(i - 1) : p[j] < p[i]

\* the scores dictionary the loop over enumerate(emotion_labels) builds:
\* a later occurrence of a label overwrites an earlier one
ScoresOf(labels, probabilities) ==
    [l \in Range(labels) |->
        LET last == CHOOSE i \in 1..Len(labels) :
                       labels[i] = l /\ \A j \in (i + 1)..Len(labels) : labels[j] # l
        IN probabilities[last]]

\* (mutation) the except branch scores only "neutral"
NeutralResult_OnlyNeutral(labels) ==
    [emotion |-> "neutral",
     confidence |-> Scale,
     scores |-> [l \in {"neutral"} |-> Scale]]

\* the except branch of predict_emotion
NeutralResult(labels) ==
    [emotion |-> "neutral",
     confidence |-> Scale,
     scores |-> [l \in Range(labels) \cup {"neutral"} |->
                    IF l = "neutral" THEN Scale ELSE 0]]

\* The exception the try block of predict_emotion raises, NoExc if none.
PredictFailure(self, features) ==
    IF self.model = None
    THEN Exc("AttributeError", "'NoneType' object has no attribute 'predict'")
    ELSE IF self.model.input_dim # Len(features.features)
    THEN Exc("ValueError", "incompatible input shape")
    ELSE LET probabilities == Forward(self.model, features.features)
             labels == self.emotion_labels
         IN IF labels.type # "array"
            THEN Exc("TypeError", "object is not iterable")
            ELSE IF Len(labels.val) > Len(probabilities)
            THEN Exc("IndexError", "index out of bounds")
            ELSE IF Len(probabilities) = 0
            THEN Exc("ValueError", "attempt to get an argmax of an empty sequence")
            ELSE IF argmax(probabilities) > Len(labels.val)
            THEN Exc("IndexError", "list index out of range")
            ELSE NoExc

\* (mutation) predict_emotion without its except branch: a failure propagates
predict_emotion_NoExcept(self, features) ==
    LET e == PredictFailure(self, features)
    IN IF e = NoExc
       THEN LET probabilities == Forward(self.model, features.features)
                dominant_idx == argmax(probabilities)
            IN [exc |-> NoExc,
                ret |-> [emotion |-> self.emotion_labels.val[dominant_idx],
                         confidence |-> probabilities[dominant_idx],
                         scores |-> ScoresOf(self.emotion_labels.val, probabilities)],
                err |-> <<>>]
       ELSE [exc |-> e, err |-> <<>>]

\* predict_emotion
predict_emotion(self, features) ==
    LET e == PredictFailure(self, features)
    IN IF e = NoExc
       THEN LET probabilities == Forward(self.model, features.features)
                dominant_idx == argmax(probabilities)
            IN [exc |-> NoExc,
                ret |-> [emotion |-> self.emotion_labels.val[dominant_idx],
                         confidence |-> probabilities[dominant_idx],
                         scores |-> ScoresOf(self.emotion_labels.val, probabilities)],
                err |-> <<>>]
       ELSE IF self.emotion_labels.type # "array"
            THEN [exc |-> Exc("TypeError", "object is not iterable"),
                  err |-> <<"Prediction error">>]
            ELSE [exc |-> NoExc,
                  ret |-> NeutralResult(self.emotion_labels.val),
                  err |-> <<"Prediction error">>]

\* (mutation) the degraded result with its two identifiers exchanged
DegradedResult_Swapped(session_id, timestamp, e) ==
    [sessionId |-> timestamp, timestamp |-> session_id, error |-> e[2]]

\* the except branch of analyze_audio
DegradedResult(session_id, timestamp, e) ==
    [sessionId |-> session_id, timestamp |-> timestamp, error |-> e[2]]

\* analyze_audio: never raises
analyze_audio(self, audio_path, session_id, timestamp) ==
    LET f == extract_features(self, audio_path)
        features == f.ret
        p == predict_emotion(self, features)
    IN IF p.exc = NoExc
       THEN [ret |-> [sessionId |-> session_id,
                      timestamp |-> timestamp,
                      emotion |-> p.ret.emotion,
                      confidence |-> p.ret.confidence,
                      scores |-> p.ret.scores,
                      features |-> [mfcc |-> features.mfcc,
                                    spectralCentroid |-> features.spectralCentroid,
                                    zeroCrossingRate |-> features.zeroCrossingRate,
                                    energy |-> features.energy],
                      voiceActivity |-> features.energy > VoiceThreshold,
                      duration |-> 1],
             err |-> f.err \o p.err]
       ELSE [ret |-> DegradedResult(session_id, timestamp, p.exc),
             err |-> f.err \o p.err \o <<"Analysis error">>]

(***************************************************************************)
(* The input stream: the lines the orchestrator may send.  A line is       *)
(* either text that is no JSON document, or the serialisation of a JSON    *)
(* document.                                                               *)
(***************************************************************************)
Text(t) == [text |-> t]
Doc(v)  == [doc |-> v]

NeutralHappy == <<"neutral", "happy">>

Configs ==
    { JObject(<<>>),
      JNumber(5),
      JObject([modelPath |-> JString("/nonexistent"), emotionLabels |-> JArray(NeutralHappy)]),
      JObject([modelPath |-> JString("/nonexistent"), modelType |-> JString("accurate"),
               emotionLabels |-> JArray(<<"happy", "sad", "angry">>)]),
      JObject([modelPath |-> JString("/nonexistent"), emotionLabels |-> JArray(<<>>)]),
      JObject([modelPath |-> JString("/nonexistent"), emotionLabels |-> JNumber(5)]),
      JObject([modelPath |-> JString("/models"), emotionLabels |-> JNumber(5)]),
      JObject([modelPath |-> JNumber(5), emotionLabels |-> JArray(<<"happy", "sad", "angry">>)]),
      JObject([modelPath |-> JString("/models"), emotionLabels |-> JArray(NeutralHappy)]),
      JObject([modelPath |-> JString("/models"), modelType |-> JString("accurate"),
               emotionLabels |-> JArray(NeutralHappy)]),
      JObject([modelPath |-> JString("/models"),
               emotionLabels |-> JArray(<<"happy", "sad", "angry">>)]),
      JObject([modelType |-> JString("accurate")]),
      JObject([emotionLabels |-> JArray(NeutralHappy)]) }

InitLines ==
    {Doc(JObject([action |-> JString("init"), config |-> c])) : c \in Configs}
    \cup {Doc(JObject([action |-> JString("init")]))}

AnalyzeLine(path) ==
    Doc(JObject([action |-> JString("analyze"), audioPath |-> JString(path),
                 sessionId |-> JString("s1"), timestamp |-> JNumber(1000)]))

AnalyzeLines ==
    {AnalyzeLine("clip.wav"), AnalyzeLine("corrupt.wav"),
     AnalyzeLine("quiet.wav"), AnalyzeLine("voiced.wav"),
     Doc(JObject([action |-> JString("analyze"), audioPath |-> JString("clip.wav"),
                  timestamp |-> JNumber(1000)]))}

OtherLines ==
    {Text("not valid json"), Text(""), Doc(JArray(<<>>)),
     Doc(JObject([action |-> JString("dance")])),
     Doc(JObject([audioPath |-> JString("clip.wav")]))}

InputLines == InitLines \cup AnalyzeLines \cup OtherLines

(***************************************************************************)
(* main                                                                    *)
(***************************************************************************)
\* json.loads(line.strip())
json_loads(line) ==
    IF "doc" \in DOMAIN line
    THEN [exc |-> NoExc, ret |-> line.doc]
    ELSE [exc |-> Exc("JSONDecodeError", "Expecting value: line 1 column 1 (char 0)")]

\* json.dumps(response) as one output line
json_dumps(response) == [json |-> response]

\* the literal line print("READY") writes
READY == Text("READY")

\* request[key] for the first of the keys the request lacks
MissingKey(request, keys) ==
    LET i == CHOOSE n \in 1..Len(keys) :
                /\ keys[n] \notin DOMAIN request
                /\ \A m \in 1..(n - 1) : keys[m] \in DOMAIN request
    IN Exc("KeyError", "'" \o keys[i] \o "'")

\* The body of the try block of main up to the response: the exception it
\* raises or the response it builds, and the analyzer as it leaves it.
TryBody(self, line, rnd) ==
    LET j == json_loads(line)
    IN IF j.exc # NoExc THEN Raised(self, j.exc, <<>>)
       ELSE IF j.ret.type # "object"
       THEN Raised(self, Exc("AttributeError", "object has no attribute 'get'"), <<>>)
       ELSE LET request == j.ret.val
                action == Get(request, "action", None)
            IN IF action = JString("init")
               THEN IF "config" \notin DOMAIN request
                    THEN Raised(self, MissingKey(request, <<"config">>), <<>>)
                    ELSE LET i == initialize(self, request.config, rnd)
                         IN IF i.exc # NoExc THEN i
                            ELSE [exc |-> NoExc, self |-> i.self, err |-> i.err,
                                  response |-> [status |-> "initialized"]]
               ELSE IF action = JString("analyze")
               THEN IF {"audioPath", "sessionId", "timestamp"} \subseteq DOMAIN request
                    THEN LET a == analyze_audio(self, request.audioPath,
                                                request.sessionId, request.timestamp)
                         IN [exc |-> NoExc, self |-> self, err |-> a.err,
                             response |-> [result |-> a.ret,
                                           sessionId |-> request.sessionId,
                                           timestamp |-> request.timestamp]]
                    ELSE Raised(self,
                                MissingKey(request, <<"audioPath", "sessionId", "timestamp">>),
                                <<>>)
               ELSE [exc |-> NoExc, self |-> self, err |-> <<>>,
                     response |-> [error |-> "Unknown action: " \o Str(action)]]

\* (mutation) except json.JSONDecodeError: other exceptions end the loop
Caught_JsonOnly(e) == e[1] = "JSONDecodeError"

\* except Exception: every exception the try block raises is caught
Caught(e) == TRUE

\* (mutation) print(...) without sys.stdout.flush(): the line stays buffered
PrintFlush_NoFlush(x) ==
    /\ buffer' = Append(buffer, x)
    /\ stdout' = stdout

\* print(x) followed by sys.stdout.flush()
PrintFlush(x) ==
    /\ stdout' = stdout \o Append(buffer, x)
    /\ buffer' = <<>>

\* self.model was assigned: each assignment is followed by its diagnostic
ModelAssigned(o) ==
    \E i \in 1..Len(o.err) : o.err[i] \in {"Loaded model", "Created dummy model"}

\* self.emotion_labels was assigned: initialize got past its first config.get
LabelsAssigned(line) ==
    /\ "doc" \in DOMAIN line
    /\ line.doc.type = "object"
    /\ Get(line.doc.val, "action", None) = JString("init")
    /\ "config" \in DOMAIN line.doc.val
    /\ line.doc.val.config.type = "object"

Init ==
    /\ pc = "start"
    /\ stdin = <<>>
    /\ stdout = <<>>
    /\ buffer = <<>>
    /\ stderr = <<>>
    /\ analyzer = NewAnalyzer
    /\ installed = [model |-> 0, labels |-> 0]
    /\ raw = <<>>
    /\ feature_vector = <<>>

\* (mutation) print("READY") without the flush
Start_NoFlush ==
    /\ pc = "start"
    /\ buffer' = Append(buffer, READY)
    /\ pc' = "read"
    /\ UNCHANGED <<stdin, stdout, stderr, analyzer, installed, raw, feature_vector>>

\* print("READY"); sys.stdout.flush()
Start ==
    /\ pc = "start"
    /\ PrintFlush(READY)
    /\ pc' = "read"
    /\ UNCHANGED <<stdin, stderr, analyzer, installed, raw, feature_vector>>

\* for line in sys.stdin: the next line arrives
ReadLine ==
    /\ pc = "read"
    /\ Len(stdin) < MaxLines
    /\ \E line \in InputLines : stdin' = Append(stdin, line)
    /\ pc' = "handle"
    /\ UNCHANGED <<stdout, buffer, stderr, analyzer, installed, raw, feature_vector>>

\* the body of the loop, for the line just read
Handle ==
    /\ pc = "handle"
    /\ \E rnd \in Rnd :
         LET n == Len(stdin)
             line == stdin[n]
             o == TryBody(analyzer, line, rnd)
         IN /\ analyzer' = o.self
            /\ stderr' = stderr \o o.err
            /\ installed' =
                 [model |-> IF ModelAssigned(o) THEN n ELSE installed.model,
                  labels |-> IF LabelsAssigned(line) THEN n ELSE installed.labels]
            /\ IF o.exc = NoExc
               THEN PrintFlush(json_dumps(o.response)) /\ pc' = "read"
               ELSE IF Caught(o.exc)
               THEN PrintFlush(json_dumps([error |-> o.exc[2]])) /\ pc' = "read"
               ELSE pc' = "crashed" /\ UNCHANGED <<stdout, buffer>>
    /\ UNCHANGED <<stdin, raw, feature_vector>>

\* the input stream ends: the loop and main return
Eof ==
    /\ pc = "read"
    /\ pc' = "done"
    /\ UNCHANGED <<stdin, stdout, buffer, stderr, analyzer, installed, raw, feature_vector>>

Next == Start \/ ReadLine \/ Handle \/ Eof

Spec == Init /\ [][Next]_vars

(***************************************************************************)
(* Feature extraction on its own: extract_features applied to an audio     *)
(* path, and its padding step applied to concatenated feature sequences of *)
(* every length up to MaxRaw.                                              *)
(***************************************************************************)
ExtractInputs ==
    {[kind |-> "raw", values |-> [i \in 1..n |-> a * i + b]] :
        n \in 0..MaxRaw, a \in 1..2, b \in 0..1}
    \cup {[kind |-> "audio", path |-> a] : a \in {"clip.wav", "corrupt.wav"}}

ExtractInit ==
    /\ pc = "extract"
    /\ raw \in ExtractInputs
    /\ feature_vector = <<>>
    /\ stdin = <<>>
    /\ stdout = <<>>
    /\ buffer = <<>>
    /\ stderr = <<>>
    /\ analyzer = NewAnalyzer
    /\ installed = [model |-> 0, labels |-> 0]

\* the pad-or-truncate step of extract_features on a concatenated sequence
PadRaw ==
    /\ pc = "extract"
    /\ raw.kind = "raw"
    /\ feature_vector' = PadOrTruncate(raw.values)
    /\ pc' = "extracted"
    /\ UNCHANGED <<stdin, stdout, buffer, stderr, analyzer, installed, raw>>

\* extract_features on an audio path
ExtractAudio ==
    /\ pc = "extract"
    /\ raw.kind = "audio"
    /\ LET f == extract_features(analyzer, JString(raw.path))
       IN /\ feature_vector' = f.ret.features
          /\ stderr' = stderr \o f.err
    /\ pc' = "extracted"
    /\ UNCHANGED <<stdin, stdout, buffer, analyzer, installed, raw>>

ExtractNext == PadRaw \/ ExtractAudio

ExtractSpec == ExtractInit /\ [][ExtractNext]_vars

TypeOK ==
    /\ pc \in {"start", "read", "handle", "done", "crashed"}
    /\ Len(stdin) <= MaxLines
    /\ buffer = <<>>

(***************************************************************************)
(* Vocabulary of the properties.                                           *)
(***************************************************************************)
Last(s) == s[Len(s)]

IsObject(line) == "doc" \in DOMAIN line /\ line.doc.type = "object"
ActionOf(line) == Get(line.doc.val, "action", None)
IsInit(line) == IsObject(line) /\ ActionOf(line) = JString("init")
IsAnalyze(line) == IsObject(line) /\ ActionOf(line) = JString("analyze")
IsValidAnalyze(line) ==
    IsAnalyze(line) /\ {"audioPath", "sessionId", "timestamp"} \subseteq DOMAIN line.doc.val
IsUnknownAction(line) == IsObject(line) /\ ~IsInit(line) /\ ~IsAnalyze(line)
\* the lines whose handling must end in the except branch of main
IsFailing(line) ==
    \/ ~IsObject(line)
    \/ IsInit(line) /\ "config" \notin DOMAIN line.doc.val
    \/ IsAnalyze(line) /\ ~IsValidAnalyze(line)

IsJson(out) == "json" \in DOMAIN out
IsError(out) == IsJson(out) /\ DOMAIN out.json = {"error"}
IsInitialized(out) == IsJson(out) /\ out.json = [status |-> "initialized"]
IsFullResult(r) ==
    /\ {"emotion", "confidence", "scores"} \subseteq DOMAIN r
    /\ "error" \notin DOMAIN r

IsFallback(m) == m # None /\ m.variant = "Fallback"
IsLoaded(m) == m # None /\ m.variant = "Loaded"

\* number of input lines that have been answered
Answered == IF pc = "handle" THEN Len(stdin) - 1 ELSE Len(stdin)

\* the feature dictionaries extraction yields: of a decodable clip, and zeros
TestFeatures ==
    {extract_features(analyzer, JString(a)).ret : a \in {"clip.wav", "corrupt.wav"}}
ZeroFeatures == extract_features(analyzer, JString("corrupt.wav")).ret

(***************************************************************************)
(* C1: the loop writes exactly one response line per input line, the i-th  *)
(* response answers the i-th line (none skipped, none answered twice), and *)
(* the loop ends only when the input stream ends.                          *)
(***************************************************************************)
Answers(line, out) ==
    /\ IsJson(out)
    /\ IsFailing(line) => IsError(out)
    /\ IsUnknownAction(line) =>
          IsError(out) /\ out.json.error = "Unknown action: " \o Str(ActionOf(line))
    /\ IsInit(line) => IsError(out) \/ IsInitialized(out)
    /\ IsValidAnalyze(line) =>
          /\ DOMAIN out.json = {"result", "sessionId", "timestamp"}
          /\ out.json.sessionId = line.doc.val.sessionId
          /\ out.json.timestamp = line.doc.val.timestamp
          /\ out.json.result.sessionId = line.doc.val.sessionId

C1_OneResponsePerLine ==
    /\ pc # "crashed"
    /\ pc # "start" => Len(stdout) = 1 + Answered
    /\ pc = "done" => Len(stdout) = 1 + Len(stdin)
    /\ \A i \in 1..(Len(stdout) - 1) : Answers(stdin[i], stdout[i + 1])

C1_Witness ==
    /\ pc = "done"
    /\ Len(stdin) >= 2
    /\ stdin[1] = Text("not valid json") /\ IsError(stdout[2])
    /\ IsValidAnalyze(stdin[2]) /\ IsFullResult(stdout[3].json.result)

(***************************************************************************)
(* C2: a malformed line is answered with exactly one {error} line and      *)
(* leaves the classifier and the labels as they were, so that a valid      *)
(* analyze line that succeeded before it succeeds after it with the same   *)
(* result; after any failing line the loop goes on to read the next line.  *)
(***************************************************************************)
AnalyzeSucceeds(self, line) ==
    IsFullResult(analyze_audio(self, line.doc.val.audioPath,
                               line.doc.val.sessionId, line.doc.val.timestamp).ret)

C2_Step ==
    pc = "handle" =>
       LET line == Last(stdin)
       IN /\ IsFailing(line) =>
               /\ pc' = "read"
               /\ Len(stdout') = Len(stdout) + 1
               /\ IsError(Last(stdout'))
          /\ "text" \in DOMAIN line =>
               /\ analyzer' = analyzer
               /\ \A a \in {l \in AnalyzeLines : IsValidAnalyze(l)} :
                     AnalyzeSucceeds(analyzer, a) => AnalyzeSucceeds(analyzer', a)

C2_Sandwich ==
    \A i \in 1..(Answered - 2) :
        (/\ IsValidAnalyze(stdin[i])
         /\ "text" \in DOMAIN stdin[i + 1]
         /\ stdin[i + 2] = stdin[i])
        => /\ IsError(stdout[i + 2])
           /\ stdout[i + 3] = stdout[i + 1]

\* the scenario on a fresh process: malformed line, then a valid analyze
C2_FreshScenario ==
    (/\ Answered >= 2
     /\ "text" \in DOMAIN stdin[1]
     /\ IsValidAnalyze(stdin[2]))
    => /\ IsError(stdout[2])
       /\ IsFullResult(stdout[3].json.result)

C2_MalformedLineResilience ==
    [](C2_Sandwich /\ C2_FreshScenario) /\ [][C2_Step]_vars

\* a malformed line handled after an init that installed a classifier
C2_Witness ==
    /\ pc = "read"
    /\ Len(stdin) >= 2
    /\ IsInit(stdin[1]) /\ IsInitialized(stdout[2])
    /\ stdin[2] = Text("not valid json") /\ IsError(stdout[3])
    /\ IsFallback(analyzer.model)
    /\ AnalyzeSucceeds(analyzer, AnalyzeLine("clip.wav"))

(***************************************************************************)
(* C3: every init line is answered with {status: "initialized"}, whatever  *)
(* its config payload and the prior state (initialize never raises).       *)
(***************************************************************************)
C3_InitAlwaysInitialized ==
    \A i \in 1..Answered : IsInit(stdin[i]) => IsInitialized(stdout[i + 1])

(***************************************************************************)
(* C4: in every state the active labels and the active classifier were     *)
(* installed by the same init call, and a Fallback classifier has as many  *)
(* outputs as there are configured labels.                                 *)
(***************************************************************************)
C4_ReplacedWholesale ==
    /\ installed.model = installed.labels
    /\ IsFallback(analyzer.model) =>
          /\ analyzer.emotion_labels.type = "array"
          /\ analyzer.model.outputs = Len(analyzer.emotion_labels.val)

(***************************************************************************)
(* C5: the first line on the output stream is the literal READY, written   *)
(* once and flushed before the first input line is read; no response       *)
(* precedes it.                                                            *)
(***************************************************************************)
C5_ReadyFirst ==
    /\ pc = "start" => stdin = <<>> /\ stdout = <<>>
    /\ pc # "start" => stdout # <<>>
    /\ stdin # <<>> => stdout # <<>>
    /\ stdout # <<>> => stdout[1] = READY
    /\ \A i \in 2..Len(stdout) : stdout[i] # READY /\ IsJson(stdout[i])

C5_Witness ==
    /\ pc = "handle"
    /\ Len(stdin) = 1
    /\ stdout = <<READY>>

(***************************************************************************)
(* C6: an init whose artifact exists and deserializes installs the Loaded  *)
(* variant; an init whose artifact is missing or does not deserialize      *)
(* installs a Fallback variant, is still answered {status: "initialized"}, *)
(* and an analyze after it returns a full result without an error field.   *)
(***************************************************************************)
\* an init line from which load_model can compute the artifact path
NamesArtifact(line) ==
    /\ IsInit(line)
    /\ "config" \in DOMAIN line.doc.val
    /\ line.doc.val.config.type = "object"
    /\ Get(line.doc.val.config.val, "modelPath", JString(DefaultModelPath)).type = "string"

ArtifactOf(line) ==
    LET c == line.doc.val.config.val
    IN Disk(ModelFile(Get(c, "modelPath", JString(DefaultModelPath)).val,
                      Get(c, "modelType", JString(DefaultModelType))))

Deserializes(art) == art.exists /\ art.loads

C6_ModelResolution ==
    /\ (pc = "read" /\ stdin # <<>> /\ NamesArtifact(Last(stdin))) =>
          /\ IsInitialized(Last(stdout))
          /\ IF Deserializes(ArtifactOf(Last(stdin)))
             THEN IsLoaded(analyzer.model)
             ELSE IsFallback(analyzer.model)
    /\ \A i \in 1..(Answered - 1) :
          (/\ NamesArtifact(stdin[i])
           /\ ~Deserializes(ArtifactOf(stdin[i]))
           /\ IsValidAnalyze(stdin[i + 1]))
          => IsFullResult(stdout[i + 2].json.result)

(***************************************************************************)
(* C7: once a configuration with L labels is active, predict returns a     *)
(* scores mapping with exactly L entries, one per configured label and no  *)
(* other key, each value in [0,1].  Stated for the configurations that a   *)
(* completed init installed and that have at least one label.              *)
(***************************************************************************)
C7_ScoresPerLabel ==
    (/\ installed.labels > 0
     /\ installed.model = installed.labels
     /\ analyzer.emotion_labels.type = "array"
     /\ analyzer.emotion_labels.val # <<>>) =>
       \A f \in TestFeatures :
          LET p == predict_emotion(analyzer, f)
          IN /\ p.exc = NoExc
             /\ DOMAIN p.ret.scores = Range(analyzer.emotion_labels.val)
             /\ Cardinality(DOMAIN p.ret.scores) = Len(analyzer.emotion_labels.val)
             /\ \A l \in DOMAIN p.ret.scores : p.ret.scores[l] \in 0..Scale

(***************************************************************************)
(* C8: while the labels are ["neutral","happy"], the result of an analyze  *)
(* line has scores whose keys are exactly {"neutral","happy"}, whichever   *)
(* classifier is active and whether or not extraction or inference fails.  *)
(***************************************************************************)
C8_RoundTripKeys ==
    (/\ pc = "read"
     /\ stdin # <<>>
     /\ IsValidAnalyze(Last(stdin))
     /\ analyzer.emotion_labels = JArray(NeutralHappy))
    => LET r == Last(stdout).json.result
       IN /\ "scores" \in DOMAIN r
          /\ DOMAIN r.scores = {"neutral", "happy"}

\* a Loaded model with 3 outputs whose argmax falls outside the two labels
C8_Witness ==
    /\ pc = "read"
    /\ stdin # <<>>
    /\ Last(stdin) = AnalyzeLine("clip.wav")
    /\ analyzer.emotion_labels = JArray(NeutralHappy)
    /\ IsLoaded(analyzer.model)
    /\ analyzer.model.outputs = 3
    /\ Last(stdout).json.result.scores = [neutral |-> Scale, happy |-> 0]

(***************************************************************************)
(* C9: whenever the active classifier is a Fallback classifier, predict on *)
(* the zero vector (and on any 40-length vector) does not raise and the    *)
(* emotion it returns is one of the configured labels.  Stated for a       *)
(* Fallback classifier built for at least one label.                       *)
(***************************************************************************)
C9_FallbackPredict ==
    (IsFallback(analyzer.model) /\ analyzer.model.outputs > 0) =>
       \A f \in TestFeatures :
          LET p == predict_emotion(analyzer, f)
          IN /\ p.exc = NoExc
             /\ analyzer.emotion_labels.type = "array"
             /\ p.ret.emotion \in Range(analyzer.emotion_labels.val)

(***************************************************************************)
(* C10: every result predict returns has confidence = scores[emotion] and  *)
(* emotion = argmax(scores), ties broken by the lowest label index.        *)
(***************************************************************************)
IndexOf(labels, l) == CHOOSE i \in 1..Len(labels) : labels[i] = l

C10_ArgmaxConsistent ==
    \A f \in TestFeatures :
       LET p == predict_emotion(analyzer, f)
       IN p.exc = NoExc =>
            LET r == p.ret
                labels == analyzer.emotion_labels.val
            IN /\ r.emotion \in DOMAIN r.scores
               /\ r.confidence = r.scores[r.emotion]
               /\ \A l \in DOMAIN r.scores : r.scores[l] <= r.confidence
               /\ \A l \in DOMAIN r.scores \ {r.emotion} :
                     r.scores[l] = r.confidence =>
                        /\ {l, r.emotion} \subseteq Range(labels)
                        /\ IndexOf(labels, r.emotion) < IndexOf(labels, l)

\* a model with 3 outputs for 2 labels: the normal path on the zero vector,
\* the safe result on a clip whose argmax falls outside the labels
C10_Witness ==
    /\ analyzer.emotion_labels = JArray(NeutralHappy)
    /\ IsLoaded(analyzer.model)
    /\ analyzer.model.outputs = 3
    /\ predict_emotion(analyzer, ZeroFeatures).ret =
          [emotion |-> "neutral", confidence |-> Scale - 2,
           scores |-> [neutral |-> Scale - 2, happy |-> 1]]
    /\ \E f \in TestFeatures :
          predict_emotion(analyzer, f).ret = NeutralResult(NeutralHappy)

(***************************************************************************)
(* C11: on any internal failure inside predict (no model, shape mismatch,  *)
(* fewer outputs than labels, argmax outside the labels, ...) predict does *)
(* not raise and returns the safe result: "neutral" scored 1.0, every      *)
(* other configured label 0.0, emotion "neutral", confidence 1.0; the      *)
(* failure does not appear as an error field of the analyze response.      *)
(* Stated for the states whose configuration a completed init installed.   *)
(***************************************************************************)
\* the last init that assigned the labels also installed the classifier
InitCompleted == installed.labels > 0 /\ installed.model = installed.labels

IsSafeResult(r, labels) ==
    /\ r.emotion = "neutral"
    /\ r.confidence = Scale
    /\ "neutral" \in DOMAIN r.scores /\ r.scores["neutral"] = Scale
    /\ \A l \in labels \ {"neutral"} : l \in DOMAIN r.scores /\ r.scores[l] = 0

C11_SafeResultOnFailure ==
    InitCompleted =>
    /\ \A f \in TestFeatures :
          PredictFailure(analyzer, f) # NoExc =>
             LET p == predict_emotion(analyzer, f)
             IN /\ p.exc = NoExc
                /\ analyzer.emotion_labels.type = "array"
                /\ IsSafeResult(p.ret, Range(analyzer.emotion_labels.val))
    /\ (pc = "read" /\ stdin # <<>> /\ IsValidAnalyze(Last(stdin))) =>
          "error" \notin DOMAIN Last(stdout).json.result

(***************************************************************************)
(* C12: a line that is a JSON object whose action is neither "init" nor    *)
(* "analyze" is answered {error: "Unknown action: <value>"}; handling it   *)
(* leaves the classifier and the labels unchanged.                         *)
(***************************************************************************)
DanceLine == Doc(JObject([action |-> JString("dance")]))

C12_Step ==
    (pc = "handle" /\ IsUnknownAction(Last(stdin))) =>
       /\ Len(stdout') = Len(stdout) + 1
       /\ IsError(Last(stdout'))
       /\ Last(stdin) = DanceLine => Last(stdout').json.error = "Unknown action: dance"
       /\ "action" \notin DOMAIN Last(stdin).doc.val =>
             Last(stdout').json.error = "Unknown action: None"
       /\ analyzer' = analyzer

C12_UnknownAction == [][C12_Step]_vars

C12_Witness ==
    /\ pc = "read"
    /\ Len(stdin) >= 2
    /\ IsInitialized(stdout[2])
    /\ stdin[2] = DanceLine
    /\ stdout[3] = json_dumps([error |-> "Unknown action: dance"])
    /\ IsLoaded(analyzer.model)

(***************************************************************************)
(* C13: when feature extraction fails, the zero vector still goes through  *)
(* predict and the result has the complete shape: emotion, confidence,     *)
(* scores, features of 13 zero mfcc and zero scalars, voiceActivity false, *)
(* duration 1.0, and no error field.  Stated for the states whose          *)
(* configuration a completed init installed.                               *)
(***************************************************************************)
C13_DegradedExtractionCompleteResult ==
    (/\ pc = "read"
     /\ stdin # <<>>
     /\ Last(stdin) = AnalyzeLine("corrupt.wav")
     /\ InitCompleted) =>
       LET r == Last(stdout).json.result
       IN /\ DOMAIN r = {"sessionId", "timestamp", "emotion", "confidence", "scores",
                         "features", "voiceActivity", "duration"}
          /\ r.features = [mfcc |-> Zeros(13), spectralCentroid |-> 0,
                           zeroCrossingRate |-> 0, energy |-> 0]
          /\ r.voiceActivity = FALSE
          /\ r.duration = 1

(***************************************************************************)
(* C14: extraction returns exactly 40 values: of a concatenated sequence   *)
(* of n values the first min(n,40) in order followed by zeros; of an audio *)
(* file that cannot be decoded, 40 zeros.                                  *)
(***************************************************************************)
Min(a, b) == IF a < b THEN a ELSE b

C14_FortyFeatures ==
    pc = "extracted" =>
       /\ Len(feature_vector) = 40
       /\ raw.kind = "raw" =>
             LET k == Min(Len(raw.values), 40)
             IN /\ \A i \in 1..k : feature_vector[i] = raw.values[i]
                /\ \A i \in (k + 1)..40 : feature_vector[i] = 0
       /\ (raw.kind = "audio" /\ raw.path = "corrupt.wav") =>
             \A i \in 1..40 : feature_vector[i] = 0
       /\ (raw.kind = "audio" /\ raw.path = "clip.wav") =>
             /\ feature_vector[1] = 17 /\ feature_vector[14] = 1 /\ feature_vector[29] = 500000
             /\ \A i \in 30..40 : feature_vector[i] = 0

\* a sequence longer than 40 has been truncated
C14_Witness ==
    /\ pc = "extracted"
    /\ raw.kind = "raw"
    /\ Len(raw.values) > 40
    /\ feature_vector[40] = raw.values[40]

(***************************************************************************)
(* C15: the response to an analyze line carries, at the top level and      *)
(* inside result, the sessionId and the timestamp the request supplied,    *)
(* in the success shape and in the degraded {sessionId, timestamp, error}  *)
(* shape.                                                                  *)
(***************************************************************************)
C15_EchoesIdentifiers ==
    \A i \in 1..Answered :
       IsValidAnalyze(stdin[i]) =>
          LET request == stdin[i].doc.val
              response == stdout[i + 1].json
          IN /\ {"result", "sessionId", "timestamp"} \subseteq DOMAIN response
             /\ response.sessionId = request.sessionId
             /\ response.timestamp = request.timestamp
             /\ {"sessionId", "timestamp"} \subseteq DOMAIN response.result
             /\ response.result.sessionId = request.sessionId
             /\ response.result.timestamp = request.timestamp
             /\ IsFullResult(response.result) \/ "error" \in DOMAIN response.result

\* an analyze line answered in the degraded shape
C15_Witness ==
    /\ pc = "read"
    /\ Len(stdin) >= 2
    /\ stdin[2] = AnalyzeLine("clip.wav")
    /\ DOMAIN stdout[3].json.result = {"sessionId", "timestamp", "error"}
    /\ stdout[3].json.result.sessionId = JString("s1")

(***************************************************************************)
(* C16: voiceActivity is true exactly when the extracted energy is         *)
(* strictly greater than 0.01: energy 0.01 gives false, energy 0.0100001   *)
(* gives true, a failed extraction (energy 0.0) gives false.  Energies are *)
(* in units of 10^-7: 0.01 is 100000 and 0.0100001 is 100001.              *)
(***************************************************************************)
C16_VoiceActivityThreshold ==
    \A i \in 1..Answered :
       (IsValidAnalyze(stdin[i]) /\ IsFullResult(stdout[i + 1].json.result)) =>
          LET r == stdout[i + 1].json.result
          IN /\ r.voiceActivity <=> r.features.energy > 100000
             /\ stdin[i] = AnalyzeLine("quiet.wav") =>
                   r.features.energy = 100000 /\ r.voiceActivity = FALSE
             /\ stdin[i] = AnalyzeLine("voiced.wav") =>
                   r.features.energy = 100001 /\ r.voiceActivity = TRUE
             /\ stdin[i] = AnalyzeLine("corrupt.wav") =>
                   r.features.energy = 0 /\ r.voiceActivity = FALSE

\* an analysed clip whose energy is exactly 0.01
C16_Witness ==
    /\ pc = "read"
    /\ stdin # <<>>
    /\ Last(stdin) = AnalyzeLine("quiet.wav")
    /\ IsFullResult(Last(stdout).json.result)
    /\ Last(stdout).json.result.features.energy = 100000
    /\ Last(stdout).json.result.voiceActivity = FALSE

(***************************************************************************)
(* C17: requests never overlap.  The response to input line i is written   *)
(* and flushed before input line i+1 is read: whenever a line is read,     *)
(* every earlier line has its response on the stream and nothing is left   *)
(* in the output buffer; and at every point the number of response lines   *)
(* written equals the number of input lines read or is exactly one less.   *)
(***************************************************************************)
Responses == Cardinality({i \in 1..Len(stdout) : IsJson(stdout[i])})

C17_Count ==
    /\ Responses \in {Len(stdin), Len(stdin) - 1}
    /\ Responses = Len(stdin) - 1 <=> pc = "handle"

C17_ReadStep ==
    stdin' # stdin =>
       /\ Len(stdin') = Len(stdin) + 1
       /\ Responses = Len(stdin)
       /\ buffer = <<>>
       /\ stdout' = stdout

C17_NoOverlap == []C17_Count /\ [][C17_ReadStep]_vars

\* the second line has been read, with the first one answered and the second
\* one not yet
C17_Witness ==
    /\ pc = "handle"
    /\ Len(stdin) = 2
    /\ Responses = 1
    /\ IsJson(Last(stdout))

(***************************************************************************)
(* C18: handling an analyze line (successful, degraded, or failing with a  *)
(* missing field) leaves the active configuration (model path, model type, *)
(* label set) and the active classifier unchanged; only the handling of an *)
(* init line can change them.                                              *)
(***************************************************************************)
C18_Step ==
    /\ (pc = "handle" /\ IsAnalyze(Last(stdin))) =>
          /\ analyzer' = analyzer
          /\ installed' = installed
    /\ analyzer' # analyzer => pc = "handle" /\ IsInit(Last(stdin))

C18_AnalyzeReadOnly == [][C18_Step]_vars

\* an analyze line lacking a field was answered with an error, and the
\* classifier the init line before it loaded is still the active one
C18_Witness ==
    /\ pc = "read"
    /\ Len(stdin) = 2
    /\ IsInit(stdin[1])
    /\ IsAnalyze(stdin[2]) /\ ~IsValidAnalyze(stdin[2])
    /\ IsError(Last(stdout))
    /\ IsLoaded(analyzer.model)
    /\ installed = [model |-> 1, labels |-> 1]

(***************************************************************************)
(* C19: an analyze line received before any init line (classifier absent,  *)
(* label set empty) is not answered with an error.  Its response is        *)
(* {result, sessionId, timestamp}, where result has emotion "neutral",     *)
(* confidence 1.0 and scores exactly {"neutral": 1.0}: a scores key that   *)
(* is not in the (empty) configured label set.                             *)
(***************************************************************************)
NoInitBefore(i) == \A k \in 1..(i - 1) : ~IsInit(stdin[k])

C19_AnalyzeBeforeInit ==
    \A i \in 1..Answered :
       (IsValidAnalyze(stdin[i]) /\ NoInitBefore(i)) =>
          LET out == stdout[i + 1]
          IN /\ IsJson(out)
             /\ DOMAIN out.json = {"result", "sessionId", "timestamp"}
             /\ "error" \notin DOMAIN out.json.result
             /\ out.json.result.emotion = "neutral"
             /\ out.json.result.confidence = Scale
             /\ DOMAIN out.json.result.scores = {"neutral"}
             /\ out.json.result.scores["neutral"] = Scale
             /\ (Len(stdin) = i \/ (pc = "handle" /\ Len(stdin) = i + 1)) =>
                   /\ analyzer.model = None
                   /\ analyzer.emotion_labels = JArray(<<>>)

\* the first line of the stream is a well-formed analyze line and has been
\* answered by the freshly constructed analyzer
C19_Witness ==
    /\ pc = "read"
    /\ Len(stdin) = 1
    /\ stdin[1] = AnalyzeLine("clip.wav")
    /\ analyzer.model = None
    /\ analyzer.emotion_labels = JArray(<<>>)
    /\ Last(stdout).json.result.emotion = "neutral"

(***************************************************************************)
(* C20: whenever the configured label set is a sequence of strings (the    *)
(* empty sequence included), the degraded {sessionId, timestamp, error}    *)
(* shape of analyze_audio is unreachable: every analyze response's result  *)
(* contains emotion, confidence and scores, because extract_features and   *)
(* predict_emotion each absorb all of their own failures.                  *)
(***************************************************************************)
AudioPaths == {"clip.wav", "corrupt.wav", "quiet.wav", "voiced.wav"}

C20_DegradedUnreachable ==
    analyzer.emotion_labels.type = "array" =>
       /\ \A a \in AudioPaths :
             LET f == extract_features(analyzer, JString(a))
                 p == predict_emotion(analyzer, f.ret)
                 r == analyze_audio(analyzer, JString(a), JString("s1"), JNumber(1000)).ret
             IN /\ Len(f.ret.features) = 40
                /\ p.exc = NoExc
                /\ IsFullResult(r)
       /\ (pc = "read" /\ stdin # <<>> /\ IsValidAnalyze(Last(stdin))) =>
             /\ IsJson(Last(stdout))
             /\ DOMAIN Last(stdout).json = {"result", "sessionId", "timestamp"}
             /\ IsFullResult(Last(stdout).json.result)

\* extraction of an undecodable clip and prediction by a classifier whose
\* input shape does not fit both failed, and the response is a full result
C20_Witness ==
    /\ pc = "read"
    /\ Len(stdin) = 2
    /\ Last(stdin) = AnalyzeLine("corrupt.wav")
    /\ analyzer.emotion_labels = JArray(NeutralHappy)
    /\ IsLoaded(analyzer.model)
    /\ PredictFailure(analyzer, extract_features(analyzer, JString("corrupt.wav")).ret) # NoExc
    /\ IsFullResult(Last(stdout).json.result)
    /\ Last(stdout).json.result.features.energy = 0
====
